---------------------------- MODULE Spec2Model ----------------------------
(***************************************************************************)
(* A model of src/src/bot/mexc_client.py: the MEXC transport client        *)
(* (MexcClient._make_request, get_klines, KlineData.from_api_response) and *)
(* the polling loop built on it (KlinePoller.start, stop, _poll_loop).     *)
(*                                                                         *)
(* Two specifications share the module.  SpecPoller runs one KlinePoller   *)
(* on an asyncio event loop: every action is one uninterrupted stretch of  *)
(* a coroutine between two awaits.  SpecClient runs logical get_klines     *)
(* calls, one after the other, on one MexcClient against an arbitrary      *)
(* server.                                                                 *)
(***************************************************************************)
EXTENDS Integers, Sequences, FiniteSets, TLC

(***************************************************************************)
(* Bounds of the model.                                                    *)
(***************************************************************************)
\* close_time values a server may report
MaxTime == 2
\* candles in one fetched batch
MaxBatch == 2
\* fetches that complete (successfully or not) in one run of the poller
MaxFetches == 2
\* polling tasks start() may create in one run
MaxTasks == 2
\* largest max_retries a client is configured with
MaxRetriesBound == 2
\* logical calls in flight at one time on a shared client
MaxCalls == 2
\* operations on the connection handle in one run
MaxOps == 4
\* requests and close() calls begun by the callers that share one client
MaxRaceOps == 6
\* inner arrays in a response body handed to one function call
MaxDecodeRows == 2
\* clock readings and reset timestamps are counted in ticks, TicksPerSecond
\* to the second, up to MaxClock
TicksPerSecond == 2
MaxClock == 7
\* inner arrays in one response body
MaxRows == 1

VARIABLES
    \* ---- KlinePoller fields
    running,            \* self._running
    task,               \* self._task: NoTask or the id of an asyncio.Task
    last_close_time,    \* self._last_close_time: None or an int
    callback,           \* self.callback: "none", "sync" or "async"
    \* ---- the event loop's view of the poller's coroutines
    pc,                 \* pc[t]: where polling task t is suspended
    cancelled,          \* cancelled[t]: Task.cancel() was called on t and not yet delivered
    stopWait,           \* tasks a suspended stop() is awaiting
    \* ---- history of the run
    nFetch,             \* fetches completed so far
    lastFetch,          \* what the most recent completed fetch produced
    cbCount,            \* callback invocations so far
    advCount,           \* changes of last_close_time so far
    lastDelivered,      \* what the callback received in the most recent fetch's
                        \* cycle; <<>> when that cycle did not invoke it
    cbRaised,           \* the callback invocation that finished last raised
    cb0                 \* the callback the poller was constructed with

VARIABLES
    \* ---- MexcClient fields
    max_retries,            \* self.max_retries
    client,                 \* self._client: NoClient or an open httpx.AsyncClient
    rate_limit_remaining,   \* self._rate_limit_remaining
    rate_limit_reset,       \* self._rate_limit_reset
    \* ---- the logical get_klines call in progress
    cpc,                    \* "idle", "request" (awaiting the response),
                            \* "sleep" (awaiting asyncio.sleep) or "done"
    retry_count,            \* the retry_count argument of the innermost _make_request
    outcome,                \* what get_klines returned or raised
    \* ---- history of the call
    nreq,                   \* HTTP requests issued by the call
    log,                    \* how each attempt of the call ended, in order
    sleeps,                 \* the sleeps of the call: kind and delay, in order
    lastResp                \* the response most recently received

VARIABLES
    \* ---- one function of the client called on its own
    args,                   \* the arguments of the call
    ret,                    \* what the call produced
    \* ---- several logical calls in flight on one client
    calls,                  \* calls[c]: the state of logical call c
    \* ---- the connection handle
    hlog                    \* the operations on the handle so far, in order

pollerVars == <<running, task, last_close_time, callback, pc, cancelled,
                stopWait, nFetch, lastFetch, cbCount, advCount,
                lastDelivered, cbRaised, cb0>>

clientVars == <<max_retries, client, rate_limit_remaining, rate_limit_reset,
                cpc, retry_count, outcome, nreq, log, sleeps, lastResp>>

\* the state of the scenarios that run neither the poller nor one logical call
restVars == <<args, ret, calls, hlog>>

vars == <<pollerVars, clientVars, restVars>>

(***************************************************************************)
(* Values.                                                                 *)
(***************************************************************************)
\* Python's None for an Optional[int]
None == -1
\* self._task = None
NoTask == 0

Tasks == 1..MaxTasks
Times == 1..MaxTime

\* A candle is kept by the one field the poller reads.
Candle(ct) == [close_time |-> ct]

RECURSIVE SeqsUpTo(_, _)
SeqsUpTo(S, n) ==
    IF n = 0 THEN {<<>>}
    ELSE LET shorter == SeqsUpTo(S, n - 1)
         IN  shorter \cup {Append(s, x) : s \in {q \in shorter : Len(q) = n - 1}, x \in S}

\* What a fetch may return: any sequence of candles in the server's order.
Batches == SeqsUpTo({Candle(ct) : ct \in Times}, MaxBatch)

\* klines[-1]
Last(s) == s[Len(s)]

\* A completed get_klines call seen from the loop: a list, or an exception.
FetchOk(b) == [ok |-> TRUE, klines |-> b]
FetchErr == [ok |-> FALSE, klines |-> <<>>]
FetchResults == {FetchOk(b) : b \in Batches} \cup {FetchErr}

NoFetch == [ok |-> FALSE, klines |-> <<>>]

(***************************************************************************)
(* KlinePoller._poll_loop, line 474: is the fetched batch new data?        *)
(***************************************************************************)
IsNewData_AnyChange(mark, latest) == mark = None \/ latest # mark

IsNewData_NotStrict(mark, latest) == mark = None \/ latest >= mark

IsNewData(mark, latest) == mark = None \/ latest > mark

HasCallback_PlainOnly(cb) == cb = "sync"

\* line 481: if self.callback
HasCallback(cb) == cb # "none"

CallbackArg_DeltaOnly(klines, mark) ==
    SelectSeq(klines, LAMBDA k : mark = None \/ k.close_time > mark)

\* lines 484, 486: the argument the callback receives
CallbackArg(klines, mark) == klines

\* nothing was called on its own, no concurrent call exists, no handle
\* operation was logged
NoArgs == <<>>
NotCalled == [kind |-> "not called"]

RestInit ==
    /\ args = NoArgs
    /\ ret = NotCalled
    /\ calls = <<>>
    /\ hlog = <<>>

PollerInit ==
    /\ running = FALSE
    /\ task = NoTask
    /\ last_close_time = None
    /\ callback \in {"none", "sync", "async"}
    /\ cb0 = callback
    /\ pc = [t \in Tasks |-> "unborn"]
    /\ cancelled = [t \in Tasks |-> FALSE]
    /\ stopWait = {}
    /\ nFetch = 0
    /\ lastFetch = NoFetch
    /\ cbCount = 0
    /\ advCount = 0
    /\ lastDelivered = <<>>
    /\ cbRaised = FALSE

history == <<nFetch, lastFetch, cbCount, advCount, lastDelivered, cbRaised>>

(***************************************************************************)
(* KlinePoller.set_callback                                                *)
(***************************************************************************)
SetCallback_ResetsMark(cb) ==
    /\ callback' = cb
    /\ callback # cb
    /\ last_close_time' = None
    /\ UNCHANGED <<running, task, pc, cancelled, stopWait,
                   history, cb0, clientVars, restVars>>

SetCallback(cb) ==
    /\ callback' = cb
    /\ callback # cb
    /\ UNCHANGED <<running, task, last_close_time, pc, cancelled, stopWait,
                   history, cb0, clientVars, restVars>>

(***************************************************************************)
(* KlinePoller.start: no await inside, so one step.                        *)
(***************************************************************************)
Start_NoGuard ==
    \E t \in Tasks :
        /\ pc[t] = "unborn"
        /\ \A u \in Tasks : u < t => pc[u] # "unborn"
        /\ running' = TRUE
        /\ task' = t
        /\ pc' = [pc EXCEPT ![t] = "created"]
        /\ UNCHANGED <<last_close_time, callback, cancelled, stopWait,
                       history, cb0, clientVars, restVars>>

Start_ResetsMark ==
    IF running
    THEN UNCHANGED vars
    ELSE \E t \in Tasks :
            /\ pc[t] = "unborn"
            /\ \A u \in Tasks : u < t => pc[u] # "unborn"
            /\ running' = TRUE
            /\ task' = t
            /\ pc' = [pc EXCEPT ![t] = "created"]
            /\ last_close_time' = None
            /\ UNCHANGED <<callback, cancelled, stopWait,
                           history, cb0, clientVars, restVars>>

Start ==
    IF running
    THEN UNCHANGED vars
    ELSE \E t \in Tasks :
            /\ pc[t] = "unborn"
            /\ \A u \in Tasks : u < t => pc[u] # "unborn"
            /\ running' = TRUE
            /\ task' = t
            /\ pc' = [pc EXCEPT ![t] = "created"]
            /\ UNCHANGED <<last_close_time, callback, cancelled, stopWait,
                           history, cb0, clientVars, restVars>>

(***************************************************************************)
(* KlinePoller.stop up to its await: clear the flag, cancel the task.      *)
(* Awaiting a task that is already done does not suspend.                  *)
(***************************************************************************)
StopCall ==
    /\ running
    /\ running' = FALSE
    /\ IF task = NoTask
       THEN UNCHANGED <<task, cancelled, stopWait>>
       ELSE IF pc[task] = "done"
            THEN /\ task' = NoTask
                 /\ UNCHANGED <<cancelled, stopWait>>
            ELSE /\ cancelled' = [cancelled EXCEPT ![task] = TRUE]
                 /\ stopWait' = stopWait \cup {task}
                 /\ UNCHANGED task
    /\ UNCHANGED <<last_close_time, callback, pc, history, cb0, clientVars, restVars>>

\* stop() resumes once the awaited task has finished: self._task = None
StopResume(t) ==
    /\ t \in stopWait
    /\ pc[t] = "done"
    /\ stopWait' = stopWait \ {t}
    /\ task' = NoTask
    /\ UNCHANGED <<running, last_close_time, callback, pc, cancelled,
                   history, cb0, clientVars, restVars>>

(***************************************************************************)
(* KlinePoller._poll_loop                                                  *)
(***************************************************************************)
\* while self._running: enter the body and suspend in get_klines, or leave
LoopHead(t) == IF running THEN "fetch" ELSE "done"

\* the task's first step
LoopBegin(t) ==
    /\ pc[t] = "created"
    /\ ~cancelled[t]
    /\ pc' = [pc EXCEPT ![t] = LoopHead(t)]
    /\ UNCHANGED <<running, task, last_close_time, callback, cancelled,
                   stopWait, history, cb0, clientVars, restVars>>

AfterFetchError_Break == "done"

\* lines 499-504: a fetch that raised is logged and the loop sleeps one
\* poll_interval inside the handler
AfterFetchError == "errsleep"

AfterNoData_NoSleep == "fetch"

\* lines 471-495: a fetch that returned nothing, or nothing new, falls through
\* to the sleep of line 495
AfterNoData == "sleep"

AfterCallback_RaiseEndsLoop(raised) == IF raised THEN "done" ELSE "sleep"

\* lines 482-495: whether the callback returned or raised (logged at 487-491),
\* the loop goes on to the sleep of line 495
AfterCallback(raised) == "sleep"

MarkAfterCallback_RollBack(old, new, raised) == IF raised THEN old ELSE new

\* lines 479-491: the mark is assigned before the callback is called, and the
\* handler of a callback that raised only logs
MarkAfterCallback(old, new, raised) == new

\* get_klines completes with r; lines 471-504 up to the next await.  A plain
\* callback runs, and returns or raises, inside this step.
FetchReturn(t, r) ==
    /\ pc[t] = "fetch"
    /\ ~cancelled[t]
    /\ nFetch < MaxFetches
    /\ nFetch' = nFetch + 1
    /\ lastFetch' = r
    /\ IF r.ok /\ r.klines # <<>> /\ IsNewData(last_close_time, Last(r.klines).close_time)
       THEN /\ IF HasCallback(callback)
               THEN /\ cbCount' = cbCount + 1
                    /\ lastDelivered' = CallbackArg(r.klines, last_close_time)
                    /\ IF callback = "async"
                       THEN /\ last_close_time' = Last(r.klines).close_time
                            /\ pc' = [pc EXCEPT ![t] = "callback"]
                            /\ UNCHANGED cbRaised
                       ELSE \E raised \in BOOLEAN :
                               /\ last_close_time' =
                                      MarkAfterCallback(last_close_time,
                                          Last(r.klines).close_time, raised)
                               /\ pc' = [pc EXCEPT ![t] = AfterCallback(raised)]
                               /\ cbRaised' = raised
               ELSE /\ last_close_time' = Last(r.klines).close_time
                    /\ pc' = [pc EXCEPT ![t] = "sleep"]
                    /\ lastDelivered' = <<>>
                    /\ UNCHANGED <<cbCount, cbRaised>>
            /\ advCount' = IF last_close_time' # last_close_time
                           THEN advCount + 1 ELSE advCount
       ELSE /\ pc' = [pc EXCEPT ![t] = IF r.ok THEN AfterNoData ELSE AfterFetchError]
            /\ lastDelivered' = <<>>
            /\ UNCHANGED <<last_close_time, advCount, cbCount, cbRaised>>
    /\ UNCHANGED <<running, task, callback, cancelled, stopWait, cb0, clientVars, restVars>>

\* an awaited asynchronous callback finishes, by returning or by raising
CallbackReturn(t) ==
    /\ pc[t] = "callback"
    /\ ~cancelled[t]
    /\ \E raised \in BOOLEAN :
          /\ pc' = [pc EXCEPT ![t] = AfterCallback(raised)]
          /\ cbRaised' = raised
    /\ UNCHANGED <<running, task, last_close_time, callback, cancelled,
                   stopWait, nFetch, lastFetch, cbCount, advCount,
                   lastDelivered, cb0, clientVars, restVars>>

\* asyncio.sleep(poll_interval) elapses (line 495 or 504): back to the loop head
SleepElapsed(t) ==
    /\ pc[t] \in {"sleep", "errsleep"}
    /\ ~cancelled[t]
    /\ pc' = [pc EXCEPT ![t] = LoopHead(t)]
    /\ UNCHANGED <<running, task, last_close_time, callback, cancelled,
                   stopWait, history, cb0, clientVars, restVars>>

DeliverCancel_AfterSleep(t) ==
    /\ cancelled[t]
    /\ pc[t] \notin {"done", "sleep", "errsleep"}
    /\ pc' = [pc EXCEPT ![t] = "done"]
    /\ cancelled' = [cancelled EXCEPT ![t] = FALSE]
    /\ UNCHANGED <<running, task, last_close_time, callback, stopWait,
                   history, cb0, clientVars, restVars>>

DeliverCancel_Cooperative(t) ==
    /\ cancelled[t]
    /\ pc[t] # "done"
    /\ IF pc[t] = "fetch"
       THEN /\ pc' = [pc EXCEPT ![t] = "errsleep"]
            /\ UNCHANGED cancelled
       ELSE /\ pc' = [pc EXCEPT ![t] = "done"]
            /\ cancelled' = [cancelled EXCEPT ![t] = FALSE]
    /\ UNCHANGED <<running, task, last_close_time, callback, stopWait,
                   history, cb0, clientVars, restVars>>

DeliverCancel_Swallowed(t) ==
    /\ cancelled[t]
    /\ pc[t] # "done"
    /\ pc' = [pc EXCEPT ![t] = "sleep"]
    /\ cancelled' = [cancelled EXCEPT ![t] = FALSE]
    /\ UNCHANGED <<running, task, last_close_time, callback, stopWait,
                   history, cb0, clientVars, restVars>>

\* CancelledError is thrown into the task at the await where it is suspended:
\* lines 497-498 (break), or out of the handler's own sleep at line 504; a task
\* that never ran ends without running its body.
DeliverCancel(t) ==
    /\ cancelled[t]
    /\ pc[t] # "done"
    /\ pc' = [pc EXCEPT ![t] = "done"]
    /\ cancelled' = [cancelled EXCEPT ![t] = FALSE]
    /\ UNCHANGED <<running, task, last_close_time, callback, stopWait,
                   history, cb0, clientVars, restVars>>

PollerNext ==
    \/ Start
    \/ StopCall
    \/ \E t \in Tasks : StopResume(t)
    \/ \E cb \in {"sync", "async"} : SetCallback(cb)
    \/ \E t \in Tasks : LoopBegin(t)
    \/ \E t \in Tasks, r \in FetchResults : FetchReturn(t, r)
    \/ \E t \in Tasks : CallbackReturn(t)
    \/ \E t \in Tasks : SleepElapsed(t)
    \/ \E t \in Tasks : DeliverCancel(t)

(***************************************************************************)
(* MexcClient: values.                                                     *)
(***************************************************************************)
\* self._client = None
NoClient == 0
\* self._client = httpx.AsyncClient(...)
OpenClient == 1

\* __init__, line 163, and _update_rate_limits, line 284
RateLimitCapacity == 1200
\* _get_rate_limit_delay, line 291
RateLimitFallback == 60
\* __init__, line 145: retry_delay
RetryDelay == 5

\* The x-mbx-used-weight-1m header of a response: absent, an integer, or a
\* string int() rejects.
NoHeader == [present |-> FALSE, int |-> FALSE, value |-> 0]
BadHeader == [present |-> TRUE, int |-> FALSE, value |-> 0]
Weight(w) == [present |-> TRUE, int |-> TRUE, value |-> w]
Headers == {NoHeader, BadHeader, Weight(100), Weight(1300)}

\* An element of an inner array that int() and float() reject.
NotANumber == -1

\* An inner array of n elements; data[0] is open_time, data[6] is close_time.
MkRow(n, ot, ct) ==
    [i \in 1..n |-> IF i = 1 THEN ot ELSE IF i = 7 THEN ct ELSE 10 + i]

\* Inner arrays a server sends: full ones with any times, shorter and longer
\* ones, and one whose close price is not a number.
RowLens == 6..12
RowTimes == {1, 2}
Rows == {MkRow(12, ot, ct) : ot \in RowTimes, ct \in RowTimes}
            \cup {MkRow(n, 1, 2) : n \in RowLens}
            \cup {[MkRow(12, 1, 2) EXCEPT ![5] = NotANumber]}

\* A response body: a JSON array of inner arrays, a JSON object that may hold
\* "code" and "msg", or text that is not JSON.
ArrayBody(rows) ==
    [kind |-> "array", rows |-> rows, hasCode |-> FALSE, code |-> 0, hasMsg |-> FALSE]
ObjectBody(hasCode, code, hasMsg) ==
    [kind |-> "object", rows |-> <<>>, hasCode |-> hasCode, code |-> code, hasMsg |-> hasMsg]
TextBody ==
    [kind |-> "text", rows |-> <<>>, hasCode |-> FALSE, code |-> 0, hasMsg |-> FALSE]

\* the exceptions of line 245
NetworkErrors == {"TimeoutException", "ConnectError", "NetworkError"}

\* "code" values a server sends
ResponseCodes == {500, 502, 503, 504, -1001, -1021, 400, 501, -1121}

Http(st, w, j, b) == [exc |-> "none", status |-> st, weight |-> w, json |-> j, body |-> b]
Failed(e) == [exc |-> e, status |-> 0, weight |-> NoHeader, json |-> FALSE, body |-> TextBody]

ErrorBodies ==
    {ObjectBody(TRUE, c, m) : c \in ResponseCodes, m \in BOOLEAN}
        \cup {ObjectBody(FALSE, 0, m) : m \in BOOLEAN}
        \cup {TextBody, ArrayBody(<<>>)}

SuccessBodies ==
    {ArrayBody(rows) : rows \in SeqsUpTo(Rows, MaxRows)}
        \cup {ObjectBody(FALSE, 0, FALSE), TextBody}

\* Everything the awaited request of line 222 may produce.
Responses ==
    {Failed(e) : e \in NetworkErrors}
        \cup {Http(429, w, FALSE, TextBody) : w \in Headers}
        \cup {Http(st, w, TRUE, b) : st \in {400, 500}, w \in Headers, b \in ErrorBodies}
        \cup {Http(200, w, TRUE, b) : w \in Headers, b \in SuccessBodies}
        \cup {Http(200, w, FALSE, TextBody) : w \in Headers}

NoResponse == Failed("none")

\* time.time() at line 289
Clock == {1, 2}

(***************************************************************************)
(* KlineData.from_api_response, lines 60-83.  data[i] of the source is     *)
(* data[i + 1] here.  The arguments are evaluated in order, so the first   *)
(* element that is missing or not a number decides the exception.          *)
(***************************************************************************)
NoKline ==
    [open_time |-> 0, open |-> 0, high |-> 0, low |-> 0, close |-> 0,
     volume |-> 0, close_time |-> 0, quote_volume |-> 0, trades |-> 0,
     taker_buy_base_volume |-> 0, taker_buy_quote_volume |-> 0]

Rejects(data, i) ==
    \/ i <= 7 /\ i >= Len(data)
    \/ i < Len(data) /\ data[i + 1] = NotANumber

Min(S) == CHOOSE x \in S : \A y \in S : x <= y

OrZero_OffByOne(data, i) == IF Len(data) > i + 1 THEN data[i + 1] ELSE 0

\* lines 80-82: data[i] if len(data) > i else 0
OrZero(data, i) == IF Len(data) > i THEN data[i + 1] ELSE 0

FromApiResponse(data) ==
    LET bad == {i \in 0..10 : Rejects(data, i)}
    IN  IF bad # {}
        THEN [err |-> IF Min(bad) >= Len(data) THEN "IndexError" ELSE "ValueError",
              kline |-> NoKline]
        ELSE [err |-> "none",
              kline |-> [open_time |-> data[1], open |-> data[2], high |-> data[3],
                         low |-> data[4], close |-> data[5], volume |-> data[6],
                         close_time |-> data[7], quote_volume |-> data[8],
                         trades |-> OrZero(data, 8),
                         taker_buy_base_volume |-> OrZero(data, 9),
                         taker_buy_quote_volume |-> OrZero(data, 10)]]

(***************************************************************************)
(* MexcClient._make_request, the try block of lines 219-243: what one      *)
(* attempt returns or raises for a response.                               *)
(***************************************************************************)
Raise(exc, code, message) ==
    [t |-> "raise", exc |-> exc, code |-> code, message |-> message, data |-> TextBody]
Return(body) ==
    [t |-> "return", exc |-> "none", code |-> 0, message |-> "", data |-> body]

TryRequest(resp) ==
    IF resp.exc # "none" THEN Raise(resp.exc, 0, "")
    ELSE IF resp.weight.present /\ ~resp.weight.int THEN Raise("ValueError", 0, "")
    ELSE IF resp.status = 429 THEN Raise("MexcRateLimitError", 0, "Rate limit exceeded")
    ELSE IF resp.status >= 400 THEN
        CASE resp.body.kind = "object" ->
                Raise("MexcAPIError",
                      IF resp.body.hasCode THEN resp.body.code ELSE resp.status,
                      IF resp.body.hasMsg THEN "msg" ELSE "text")
          [] resp.body.kind = "text" -> Raise("MexcAPIError", resp.status, "text")
          [] resp.body.kind = "array" -> Raise("AttributeError", 0, "")
    ELSE IF resp.json
         THEN IF resp.body.kind = "text" THEN Raise("ValueError", 0, "")
              ELSE Return(resp.body)
         ELSE Return(ObjectBody(FALSE, 0, FALSE))

\* _update_rate_limits, lines 280-285, for a header int() accepts
Max(a, b) == IF a >= b THEN a ELSE b

UpdateRateLimits_OnlyOnSuccess(remaining, resp) ==
    IF resp.exc = "none" /\ resp.status < 400 /\ resp.weight.present /\ resp.weight.int
    THEN Max(0, RateLimitCapacity - resp.weight.value)
    ELSE remaining

UpdateRateLimits_NoFloor(remaining, resp) ==
    IF resp.exc = "none" /\ resp.weight.present /\ resp.weight.int
    THEN RateLimitCapacity - resp.weight.value
    ELSE remaining

UpdateRateLimits(remaining, resp) ==
    IF resp.exc = "none" /\ resp.weight.present /\ resp.weight.int
    THEN Max(0, RateLimitCapacity - resp.weight.value)
    ELSE remaining

RateLimitResetAfter_Recorded(reset, resp) ==
    IF resp.exc = "none" /\ resp.status = 429 THEN MaxClock ELSE reset

\* _update_rate_limits, lines 280-285, assigns _rate_limit_remaining only: the
\* reset timestamp after a response is the one before it
RateLimitResetAfter(reset, resp) == reset

GetRateLimitDelay_NoFallback(reset, now) == ((reset - now) \div TicksPerSecond) + 1

\* _get_rate_limit_delay, lines 287-291, in seconds; reset and now are in
\* ticks, and int() keeps the whole seconds of their difference
GetRateLimitDelay(reset, now) ==
    IF reset > now THEN ((reset - now) \div TicksPerSecond) + 1 ELSE RateLimitFallback

BackoffDelay_Constant(rc) == RetryDelay

\* lines 251 and 273: self.retry_delay * (2 ** retry_count)
BackoffDelay(rc) == RetryDelay * (2 ^ rc)

IsRetryableError_Without1021(code) == code \in {500, 502, 503, 504, -1001}

\* _is_retryable_error, lines 293-296
IsRetryableError(code) == code \in {500, 502, 503, 504, -1001, -1021}

AttemptsRemain_OffByOne(rc, maxr) == rc + 1 < maxr

\* lines 250, 261, 272: retry_count < self.max_retries
AttemptsRemain(rc, maxr) == rc < maxr

NextRetryCount_OwnBudget(rc, why) == IF why = "ratelimit" THEN rc ELSE rc + 1

\* lines 254, 265, 276: the recursive call's retry_count; why is the handler
NextRetryCount(rc, why) == rc + 1

\* which except clause of lines 245-278 retries the exception, if any
RetryHandler_RaiseOn429(r, rc, maxr) ==
    IF r.t = "raise" /\ r.exc \in NetworkErrors /\ AttemptsRemain(rc, maxr)
        THEN "backoff"
    ELSE IF r.t = "raise" /\ r.exc = "MexcAPIError"
             /\ AttemptsRemain(rc, maxr) /\ IsRetryableError(r.code)
        THEN "backoff"
    ELSE "none"

RetryHandler_RetryAnyApiError(r, rc, maxr) ==
    IF r.t = "raise" /\ r.exc \in NetworkErrors /\ AttemptsRemain(rc, maxr)
        THEN "backoff"
    ELSE IF r.t = "raise" /\ r.exc = "MexcRateLimitError" /\ AttemptsRemain(rc, maxr)
        THEN "ratelimit"
    ELSE IF r.t = "raise" /\ r.exc = "MexcAPIError" /\ AttemptsRemain(rc, maxr)
        THEN "backoff"
    ELSE "none"

RetryHandler(r, rc, maxr) ==
    IF r.t = "raise" /\ r.exc \in NetworkErrors /\ AttemptsRemain(rc, maxr)
        THEN "backoff"
    ELSE IF r.t = "raise" /\ r.exc = "MexcRateLimitError" /\ AttemptsRemain(rc, maxr)
        THEN "ratelimit"
    ELSE IF r.t = "raise" /\ r.exc = "MexcAPIError"
             /\ AttemptsRemain(rc, maxr) /\ IsRetryableError(r.code)
        THEN "backoff"
    ELSE "none"

(***************************************************************************)
(* MexcClient.get_klines, lines 337-357: the result of the call once       *)
(* _make_request has returned or raised r for good.                        *)
(***************************************************************************)
Pending == [kind |-> "pending", code |-> 0, message |-> "", klines |-> <<>>]
Raised(kind, code, message) ==
    [kind |-> kind, code |-> code, message |-> message, klines |-> <<>>]
Returned(klines) == [kind |-> "return", code |-> 0, message |-> "", klines |-> klines]

\* line 343: the list comprehension stops at the first item that raises
DecodeAll(rows) ==
    LET dec == [i \in 1..Len(rows) |-> FromApiResponse(rows[i])]
        bad == {i \in 1..Len(rows) : dec[i].err # "none"}
    IN  IF bad # {} THEN Raised(dec[Min(bad)].err, 0, "")
        ELSE Returned([i \in 1..Len(rows) |-> dec[i].kline])

GetKlinesResult_NetworkUnwrapped(r) ==
    IF r.t = "return"
    THEN IF r.data.kind # "array"
         THEN Raised("MexcClientError", 0, "Unexpected response format")
         ELSE DecodeAll(r.data.rows)
    ELSE Raised(r.exc, r.code, r.message)

\* MexcClientError is raised at line 256 (retries exhausted) and at line 341
\* (unexpected format); the two are told apart by their message.
GetKlinesResult(r) ==
    IF r.t = "return"
    THEN IF r.data.kind # "array"
         THEN Raised("MexcClientError", 0, "Unexpected response format")
         ELSE DecodeAll(r.data.rows)
    ELSE IF r.exc \in NetworkErrors
         THEN Raised("MexcClientError", 0, "Network error")
         ELSE Raised(r.exc, r.code, r.message)

\* how an attempt ended, for the call's history
AttemptKind(r, res) ==
    IF r.t = "return" THEN (IF res.kind = "return" THEN "ok" ELSE "other")
    ELSE IF r.exc \in NetworkErrors THEN "transport"
    ELSE IF r.exc = "MexcRateLimitError" THEN "r429"
    ELSE IF r.exc = "MexcAPIError" THEN "api"
    ELSE "other"

(***************************************************************************)
(* MexcClient: construction and actions.                                   *)
(***************************************************************************)
ClientInit ==
    /\ max_retries \in 0..MaxRetriesBound
    /\ client = NoClient
    /\ rate_limit_remaining = RateLimitCapacity
    /\ rate_limit_reset = 0
    /\ cpc = "idle"
    /\ retry_count = 0
    /\ outcome = Pending
    /\ nreq = 0
    /\ log = <<>>
    /\ sleeps = <<>>
    /\ lastResp = NoResponse

\* _ensure_client, lines 175-185
EnsureClient(c) == IF c = NoClient THEN OpenClient ELSE c

\* get_klines is called: lines 322-338 and _make_request up to its await at 222
GetKlines ==
    /\ cpc \in {"idle", "done"}
    /\ client' = EnsureClient(client)
    /\ cpc' = "request"
    /\ retry_count' = 0
    /\ nreq' = 1
    /\ log' = <<>>
    /\ sleeps' = <<>>
    /\ outcome' = Pending
    /\ lastResp' = NoResponse
    /\ UNCHANGED <<max_retries, rate_limit_remaining, rate_limit_reset, pollerVars, restVars>>

\* the request of line 222 completes with resp: lines 224-278 up to the sleep
\* of the handler that retries, or to the end of get_klines
Respond(resp) ==
    /\ cpc = "request"
    /\ lastResp' = resp
    /\ rate_limit_remaining' = UpdateRateLimits(rate_limit_remaining, resp)
    /\ rate_limit_reset' = RateLimitResetAfter(rate_limit_reset, resp)
    /\ LET r == TryRequest(resp)
           h == RetryHandler(r, retry_count, max_retries)
           res == GetKlinesResult(r)
       IN  /\ log' = Append(log, AttemptKind(r, res))
           /\ IF h # "none"
              THEN /\ cpc' = "sleep"
                   /\ IF h = "ratelimit"
                      THEN \E now \in Clock :
                              sleeps' = Append(sleeps,
                                  [kind |-> h,
                                   delay |-> GetRateLimitDelay(rate_limit_reset, now)])
                      ELSE sleeps' = Append(sleeps,
                              [kind |-> h, delay |-> BackoffDelay(retry_count)])
                   /\ UNCHANGED outcome
              ELSE /\ cpc' = "done"
                   /\ outcome' = res
                   /\ UNCHANGED sleeps
    /\ UNCHANGED <<max_retries, client, retry_count, nreq, pollerVars, restVars>>

\* the sleep of line 253, 264 or 275 elapses: the recursive _make_request
\* issues the next request
Retry ==
    /\ cpc = "sleep"
    /\ retry_count' = NextRetryCount(retry_count, sleeps[Len(sleeps)].kind)
    /\ client' = EnsureClient(client)
    /\ nreq' = nreq + 1
    /\ cpc' = "request"
    /\ UNCHANGED <<max_retries, rate_limit_remaining, rate_limit_reset, outcome,
                   log, sleeps, lastResp, pollerVars, restVars>>

\* close, lines 187-191, called while no request is in flight
Close ==
    /\ cpc \in {"idle", "done"}
    /\ client' = NoClient
    /\ UNCHANGED <<max_retries, rate_limit_remaining, rate_limit_reset, cpc,
                   retry_count, outcome, nreq, log, sleeps, lastResp, pollerVars, restVars>>

(***************************************************************************)
(* Several logical calls on one MexcClient.  Each call is its own chain of *)
(* _make_request coroutines; the event loop interleaves them at their      *)
(* awaits.  The calls share self._client and the rate-limit fields.        *)
(***************************************************************************)
CallIds == 1..MaxCalls

\* One response of each kind the retry logic tells apart.
SharedResponses ==
    {Failed("ConnectError"),
     Http(429, NoHeader, FALSE, TextBody),
     Http(500, Weight(100), TRUE, ObjectBody(TRUE, 503, TRUE)),
     Http(400, NoHeader, TRUE, ObjectBody(TRUE, -1121, TRUE)),
     Http(200, Weight(1300), TRUE, ArrayBody(<<>>)),
     Http(200, NoHeader, TRUE, ObjectBody(FALSE, 0, FALSE))}

IdleCall ==
    [cpc |-> "idle", retry_count |-> 0, nreq |-> 0, why |-> "none",
     outcome |-> Pending, lastResp |-> NoResponse]

RetryCountOf_OnInstance(cs, c) ==
    CHOOSE n \in {cs[d].retry_count : d \in CallIds} :
        \A d \in CallIds : cs[d].retry_count <= n

\* retry_count is a parameter of _make_request (line 198): every call chain
\* reads its own
RetryCountOf(cs, c) == cs[c].retry_count

\* get_klines is called by caller c: lines 322-338 and _make_request up to its
\* await at 222
CallBegin(c) ==
    /\ calls[c].cpc = "idle"
    /\ client' = EnsureClient(client)
    /\ calls' = [calls EXCEPT ![c] =
                    [IdleCall EXCEPT !.cpc = "request", !.nreq = 1]]
    /\ UNCHANGED <<max_retries, rate_limit_remaining, rate_limit_reset, cpc,
                   retry_count, outcome, nreq, log, sleeps, lastResp,
                   pollerVars, args, ret, hlog>>

\* the request of call c completes with resp: lines 224-278 up to the sleep of
\* the handler that retries, or to the end of get_klines
CallRespond(c, resp) ==
    /\ calls[c].cpc = "request"
    /\ rate_limit_remaining' = UpdateRateLimits(rate_limit_remaining, resp)
    /\ LET r == TryRequest(resp)
           h == RetryHandler(r, RetryCountOf(calls, c), max_retries)
       IN  calls' = [calls EXCEPT ![c] =
                        IF h # "none"
                        THEN [@ EXCEPT !.cpc = "sleep", !.why = h, !.lastResp = resp]
                        ELSE [@ EXCEPT !.cpc = "done", !.lastResp = resp,
                                       !.outcome = GetKlinesResult(r)]]
    /\ UNCHANGED <<max_retries, client, rate_limit_reset, cpc, retry_count,
                   outcome, nreq, log, sleeps, lastResp, pollerVars, args, ret,
                   hlog>>

\* the sleep of call c elapses: the recursive _make_request issues its next
\* request
CallRetry(c) ==
    /\ calls[c].cpc = "sleep"
    /\ client' = EnsureClient(client)
    /\ calls' = [calls EXCEPT ![c] =
                    [@ EXCEPT !.cpc = "request",
                              !.retry_count = NextRetryCount(@, calls[c].why),
                              !.nreq = @ + 1]]
    /\ UNCHANGED <<max_retries, rate_limit_remaining, rate_limit_reset, cpc,
                   retry_count, outcome, nreq, log, sleeps, lastResp,
                   pollerVars, args, ret, hlog>>

SharedNext ==
    \/ \E c \in CallIds : CallBegin(c)
    \/ \E c \in CallIds, resp \in SharedResponses : CallRespond(c, resp)
    \/ \E c \in CallIds : CallRetry(c)

(***************************************************************************)
(* The connection handle, with the identity of the httpx.AsyncClient       *)
(* objects: self._client is NoClient or the number of the object held.     *)
(* One caller opens, requests and closes, one operation after the other.   *)
(***************************************************************************)
\* AsyncClient objects constructed so far
HandlesMade(h) ==
    Cardinality({i \in 1..Len(h) : h[i].held = NoClient /\ h[i].now # NoClient})

EnsureClientId_Always(c, h) == HandlesMade(h) + 1

\* _ensure_client, lines 175-185: construct an object only when none is held
EnsureClientId(c, h) == IF c = NoClient THEN HandlesMade(h) + 1 ELSE c

\* what every operation on the handle leaves alone
HandleFrame ==
    UNCHANGED <<max_retries, rate_limit_remaining, rate_limit_reset, cpc,
                retry_count, outcome, nreq, log, sleeps, lastResp,
                pollerVars, args, ret, calls>>

\* __aenter__, lines 166-169
Enter ==
    /\ Len(hlog) < MaxOps
    /\ client' = EnsureClientId(client, hlog)
    /\ hlog' = Append(hlog, [op |-> "enter", held |-> client, now |-> client'])
    /\ HandleFrame

\* a request: _make_request line 217, then the handle is used at line 222
Request ==
    /\ Len(hlog) < MaxOps
    /\ client' = EnsureClientId(client, hlog)
    /\ hlog' = Append(hlog, [op |-> "request", held |-> client, now |-> client'])
    /\ HandleFrame

\* close, lines 187-191 (also __aexit__, lines 171-173): aclose() the handle if
\* one is held, and hold none
CloseHandle ==
    /\ Len(hlog) < MaxOps
    /\ client' = NoClient
    /\ hlog' = Append(hlog, [op |-> "close", held |-> client, now |-> client'])
    /\ HandleFrame

HandleNext == Enter \/ Request \/ CloseHandle

(***************************************************************************)
(* Functions applied once to arguments: args holds the arguments, ret what *)
(* the call returned or raised.                                            *)
(***************************************************************************)
CallFrame == UNCHANGED <<pollerVars, clientVars, args, calls, hlog>>

\* get_klines, lines 322-331: the query parameters.  An argument that is not
\* supplied is None; "if start_time:" is false for None and for 0.
MaxLimit == 1000
Truthy(x) == x # None /\ x # 0

ClampLimit_Unclamped(limit) == limit

ClampLimit(limit) == Min({limit, MaxLimit})

KlineParams(limit, start_time, end_time) ==
    [limit |-> ClampLimit(limit),
     hasStartTime |-> Truthy(start_time),
     startTime |-> IF Truthy(start_time) THEN start_time ELSE None,
     hasEndTime |-> Truthy(end_time),
     endTime |-> IF Truthy(end_time) THEN end_time ELSE None]

\* Inner arrays for the calls below: those of Rows and one with another close
\* price.
PricedRows == Rows \cup {[MkRow(12, 1, 2) EXCEPT ![5] = 16]}

\* What get_klines returns or raises, for get_latest_price: the result of a
\* final attempt on any response, with bodies of up to MaxDecodeRows arrays.
LatestFetches ==
    {GetKlinesResult(TryRequest(resp)) : resp \in Responses}
        \cup {DecodeAll(rows) : rows \in SeqsUpTo(PricedRows, MaxDecodeRows)}

\* get_latest_price, lines 359-378, given what its get_klines call produced
Price(kind, code, message, price) ==
    [kind |-> kind, code |-> code, message |-> message, price |-> price,
     params |-> KlineParams(1, None, None)]

GetLatestPrice_NoEmptyCheck(fetch) ==
    IF fetch.kind # "return" THEN Price(fetch.kind, fetch.code, fetch.message, 0)
    ELSE IF fetch.klines = <<>> THEN Price("IndexError", 0, "", 0)
    ELSE Price("return", 0, "", fetch.klines[1].close)

GetLatestPrice(fetch) ==
    IF fetch.kind # "return" THEN Price(fetch.kind, fetch.code, fetch.message, 0)
    ELSE IF fetch.klines = <<>> THEN Price("MexcClientError", 0, "No klines returned", 0)
    ELSE Price("return", 0, "", fetch.klines[1].close)

LatestPriceCall ==
    /\ ret = NotCalled
    /\ ret' = GetLatestPrice(args.fetch)
    /\ CallFrame

\* _get_rate_limit_delay, lines 287-291, called with self._rate_limit_reset =
\* args.reset when time.time() reads args.now
RateLimitDelayCall ==
    /\ ret = NotCalled
    /\ ret' = [delay |-> GetRateLimitDelay(args.reset, args.now)]
    /\ CallFrame

\* get_klines, lines 322-338: the parameters handed to _make_request for the
\* arguments in args
Limits == {0, 1, 100, 999, 1000, 1001, 5000}
TimeArgs == {None} \cup 0..MaxTime

KlineParamsCall ==
    /\ ret = NotCalled
    /\ ret' = [kind |-> "sent",
               params |-> KlineParams(args.limit, args.start_time, args.end_time)]
    /\ CallFrame

\* get_klines, line 343, on a response whose body is the array args.rows of
\* inner arrays of numbers
DecodeRows == {r \in PricedRows : \A i \in 1..Len(r) : r[i] # NotANumber}

DecodeCall ==
    /\ ret = NotCalled
    /\ ret' = DecodeAll(args.rows)
    /\ CallFrame

(***************************************************************************)
(* close() and requests of several callers on one MexcClient.  close()     *)
(* suspends in "await self._client.aclose()": the handle is closed when    *)
(* the await begins, and self._client is cleared when close() resumes.     *)
(* calls[c] tells whether caller c is suspended there.                     *)
(***************************************************************************)
\* the handles on which aclose() was called in the first n entries of h
ClosedIn(h, n) == {h[j].held : j \in {k \in 1..n : h[k].op = "aclose"}}

RaceFrame ==
    UNCHANGED <<max_retries, rate_limit_remaining, rate_limit_reset, cpc,
                retry_count, outcome, nreq, log, sleeps, lastResp,
                pollerVars, args, ret>>

\* _make_request, lines 217-222: _ensure_client has no await inside, so the
\* request is issued on the handle it leaves in self._client
\* an entry of a request or of a close() call, not of a resumption
Begun(e) == e.op # "clear"

RaceRequest ==
    /\ Len(SelectSeq(hlog, Begun)) < MaxRaceOps
    /\ client' = EnsureClientId(client, hlog)
    /\ hlog' = Append(hlog, [op |-> "request", held |-> client, now |-> client'])
    /\ UNCHANGED calls
    /\ RaceFrame

\* close, lines 187-190: the test and the call of aclose()
CloseBegin(c) ==
    /\ calls[c] = "idle"
    /\ Len(SelectSeq(hlog, Begun)) < MaxRaceOps
    /\ IF client = NoClient
       THEN /\ hlog' = Append(hlog, [op |-> "close", held |-> client, now |-> client])
            /\ UNCHANGED calls
       ELSE /\ hlog' = Append(hlog, [op |-> "aclose", held |-> client, now |-> client])
            /\ calls' = [calls EXCEPT ![c] = "aclose"]
    /\ UNCHANGED client
    /\ RaceFrame

\* close, line 191, when the await of line 190 returns
CloseEnd(c) ==
    /\ calls[c] = "aclose"
    /\ client' = NoClient
    /\ hlog' = Append(hlog, [op |-> "clear", held |-> client, now |-> NoClient])
    /\ calls' = [calls EXCEPT ![c] = "idle"]
    /\ RaceFrame

RaceNext ==
    \/ RaceRequest
    \/ \E c \in CallIds : CloseBegin(c)
    \/ \E c \in CallIds : CloseEnd(c)

ClientNext ==
    \/ GetKlines
    \/ \E resp \in Responses : Respond(resp)
    \/ Retry
    \/ Close

(***************************************************************************)
(* Specifications.  Each runs one of the two components and holds the      *)
(* other in its constructed state.                                         *)
(***************************************************************************)
PollerSpecInit ==
    PollerInit /\ ClientInit /\ max_retries = MaxRetriesBound /\ RestInit

SpecPoller == PollerSpecInit /\ [][PollerNext]_vars

\* One caller drives the poller and awaits each call before the next one: no
\* start() runs while a stop() is suspended.
CallerStart == stopWait = {} /\ Start

OneCallerNext ==
    \/ CallerStart
    \/ StopCall
    \/ \E t \in Tasks : StopResume(t)
    \/ \E cb \in {"sync", "async"} : SetCallback(cb)
    \/ \E t \in Tasks : LoopBegin(t)
    \/ \E t \in Tasks, r \in FetchResults : FetchReturn(t, r)
    \/ \E t \in Tasks : CallbackReturn(t)
    \/ \E t \in Tasks : SleepElapsed(t)
    \/ \E t \in Tasks : DeliverCancel(t)

\* The event loop runs every callback that is ready: a task whose
\* cancellation was requested is stepped, and a coroutine awaiting a finished
\* task is resumed.  Nothing is assumed about the server or about timers.
SpecOneCaller ==
    PollerSpecInit /\ [][OneCallerNext]_vars
        /\ \A t \in Tasks : WF_vars(DeliverCancel(t)) /\ WF_vars(StopResume(t))

ClientSpecInit == ClientInit /\ PollerInit /\ callback = "none" /\ RestInit

SpecClient == ClientSpecInit /\ [][ClientNext]_vars

SharedSpecInit ==
    /\ ClientInit /\ max_retries = MaxRetriesBound
    /\ PollerInit /\ callback = "none"
    /\ args = NoArgs /\ ret = NotCalled /\ hlog = <<>>
    /\ calls = [c \in CallIds |-> IdleCall]

SpecShared == SharedSpecInit /\ [][SharedNext]_vars

HandleSpecInit == ClientSpecInit /\ max_retries = MaxRetriesBound

SpecHandle == HandleSpecInit /\ [][HandleNext]_vars

\* everything but the arguments of the call
CallSpecInit ==
    /\ ClientInit /\ max_retries = MaxRetriesBound
    /\ PollerInit /\ callback = "none"
    /\ ret = NotCalled /\ calls = <<>> /\ hlog = <<>>

LatestSpecInit ==
    /\ CallSpecInit
    /\ args \in {[fetch |-> f] : f \in LatestFetches}

SpecLatest == LatestSpecInit /\ [][LatestPriceCall]_vars

\* a reset timestamp of 0 is the value of line 164: none is known
RateDelaySpecInit ==
    /\ CallSpecInit
    /\ args \in {[reset |-> r, now |-> n] : r \in 0..MaxClock, n \in 1..MaxClock}

SpecRateDelay == RateDelaySpecInit /\ [][RateLimitDelayCall]_vars

ParamsSpecInit ==
    /\ CallSpecInit
    /\ args \in [limit : Limits, start_time : TimeArgs, end_time : TimeArgs]

SpecParams == ParamsSpecInit /\ [][KlineParamsCall]_vars

DecodeSpecInit ==
    /\ CallSpecInit
    /\ args \in {[rows |-> rs] : rs \in SeqsUpTo(DecodeRows, MaxDecodeRows)}

SpecDecode == DecodeSpecInit /\ [][DecodeCall]_vars

RaceSpecInit ==
    /\ ClientInit /\ max_retries = MaxRetriesBound
    /\ PollerInit /\ callback = "none"
    /\ args = NoArgs /\ ret = NotCalled /\ hlog = <<>>
    /\ calls = [c \in CallIds |-> "idle"]

SpecRace == RaceSpecInit /\ [][RaceNext]_vars

(***************************************************************************)
(* Properties of the poller (checked under SpecPoller).                    *)
(***************************************************************************)
\* the step is the completion of a successful, non-empty fetch
FetchedNonEmpty == nFetch' = nFetch + 1 /\ lastFetch'.ok /\ lastFetch'.klines # <<>>

\* the last close_time of that fetch
Fetched_latest == Last(lastFetch'.klines).close_time

\* C1 (Dedup): a successful non-empty fetch whose last close_time is equal to
\* or lower than the stored high-water mark invokes no callback; a poller built
\* with a callback invokes it exactly once on its first non-empty fetch, and a
\* fetch whose last close_time equals that of the fetch before it invokes none.
C1_Dedup ==
    /\ [][(FetchedNonEmpty /\ last_close_time # None
               /\ Fetched_latest <= last_close_time)
            => (cbCount' = cbCount /\ lastDelivered' = <<>>)]_vars
    /\ [][(FetchedNonEmpty /\ nFetch = 0 /\ cb0 # "none")
            => cbCount' = 1]_vars
    /\ [][(FetchedNonEmpty /\ lastFetch.ok /\ lastFetch.klines # <<>>
               /\ Fetched_latest = Last(lastFetch.klines).close_time)
            => cbCount' = cbCount]_vars

\* two fetches with the same last close_time were made; the first one invoked
\* the callback, the second did not
C1_Witness ==
    /\ cb0 # "none"
    /\ nFetch = 2
    /\ lastFetch.ok /\ lastFetch.klines # <<>>
    /\ Last(lastFetch.klines).close_time = last_close_time
    /\ cbCount = 1
    /\ lastDelivered = <<>>

\* C2 (New-data delivery): when a successful non-empty fetch has a last
\* close_time above the mark, or the mark is unset, and a callback is set, the
\* mark becomes that close_time and the callback is invoked exactly once in
\* that cycle with the entire fetched batch, in order; the callback is invoked
\* nowhere else.
C2_NewDataDelivery ==
    /\ [][(FetchedNonEmpty
               /\ (last_close_time = None \/ Fetched_latest > last_close_time))
            => /\ last_close_time' = Fetched_latest
               /\ callback # "none" =>
                     /\ cbCount' = cbCount + 1
                     /\ lastDelivered' = lastFetch'.klines]_vars
    /\ [][cbCount' # cbCount
            => (nFetch' = nFetch + 1 /\ cbCount' = cbCount + 1)]_vars

\* the second delivery carried a two-candle batch whose first candle was not
\* newer than the mark the first delivery had set
C2_Witness ==
    /\ cbCount = 2
    /\ last_close_time = 2
    /\ lastDelivered = <<Candle(1), Candle(2)>>

\* C3 (Exactly once per observed advance): for a poller constructed with a
\* callback, the number of callback invocations equals the number of advances
\* of the mark, and the batch the callback received in a cycle is the batch
\* whose last close_time the mark was advanced to.
C3_ExactlyOncePerAdvance ==
    cb0 # "none" =>
        /\ cbCount = advCount
        /\ lastDelivered # <<>> =>
              /\ lastFetch.ok
              /\ lastDelivered = lastFetch.klines
              /\ last_close_time = Last(lastDelivered).close_time

\* two advances were delivered, the second one by a loop started after a stop()
C3_Witness ==
    /\ cb0 # "none"
    /\ cbCount = 2 /\ advCount = 2
    /\ pc[1] = "done" /\ pc[2] = "sleep"
    /\ lastDelivered # <<>>

(***************************************************************************)
(* Properties of the transport client (checked under SpecClient).          *)
(***************************************************************************)
\* every attempt of the call so far ended the way k names
AllAttempts(k) == \A i \in 1..Len(log) : log[i] = k

\* the step is the arrival of a response
Responded == Len(log') = Len(log) + 1

\* resp is an error response that carries or implies an error code: status >= 400
\* other than 429, a body that is a JSON object or not JSON at all, and a
\* used-weight header that is absent or an integer
IsApiErrorResponse(resp) ==
    /\ resp.exc = "none"
    /\ resp.status >= 400 /\ resp.status # 429
    /\ resp.body.kind \in {"object", "text"}
    /\ ~(resp.weight.present /\ ~resp.weight.int)

\* the code of such a response: the body's "code", else the HTTP status
CarriedCode(resp) ==
    IF resp.body.kind = "object" /\ resp.body.hasCode
    THEN resp.body.code ELSE resp.status

\* its message: the body's "msg", else the raw text
CarriedMessage(resp) ==
    IF resp.body.kind = "object" /\ resp.body.hasMsg THEN "msg" ELSE "text"

\* C4 (Retry count): with max_retries = N, a call whose first N attempts fail
\* at transport level and whose next attempt succeeds makes N retries, N + 1
\* requests, and returns the result; a call whose N + 1 attempts all fail at
\* transport level ends with the network-exhausted MexcClientError after
\* N + 1 requests, and it ends no earlier.
C4_RetryCount ==
    /\ (/\ Len(log) = max_retries + 1
        /\ \A i \in 1..max_retries : log[i] = "transport"
        /\ log[max_retries + 1] = "ok")
         => /\ cpc = "done" /\ outcome.kind = "return"
            /\ nreq = max_retries + 1
            /\ retry_count = max_retries
            /\ Len(sleeps) = max_retries
    /\ (Len(log) = max_retries + 1 /\ AllAttempts("transport"))
         => /\ cpc = "done"
            /\ outcome.kind = "MexcClientError" /\ outcome.message = "Network error"
            /\ nreq = max_retries + 1
    /\ (cpc = "done" /\ AllAttempts("transport")) => Len(log) = max_retries + 1

\* two transport failures, then a success that returned candles
C4_Witness ==
    /\ max_retries = 2
    /\ log = <<"transport", "transport", "ok">>
    /\ outcome.kind = "return" /\ outcome.klines # <<>>
    /\ nreq = 3

\* C5 (Shared retry budget): every retry, whatever failure caused it, advances
\* the one attempt counter, so a call issues at most max_retries + 1 requests
\* and has ended, with a result or an error, once that many attempts ended.
C5_SharedRetryBudget ==
    /\ nreq <= max_retries + 1
    /\ cpc # "idle" => retry_count = nreq - 1
    /\ Len(sleeps) <= max_retries
    /\ Len(log) = max_retries + 1 => cpc = "done"
    /\ cpc = "done" => outcome.kind # "pending"

\* a call that met all three retried failure kinds and ran out of attempts
C5_Witness ==
    /\ max_retries = 2
    /\ log = <<"transport", "r429", "api">>
    /\ cpc = "done" /\ nreq = 3
    /\ outcome.kind = "MexcAPIError"

\* C6 as claimed (Rate-limit exhaustion): with max_retries = N >= 1, after N
\* consecutive 429 responses the call has failed with MexcRateLimitError and
\* issues no further request.
C6_AsClaimed ==
    (max_retries >= 1 /\ Len(log) = max_retries /\ AllAttempts("r429"))
        => (cpc = "done" /\ outcome.kind = "MexcRateLimitError")

\* C6 as amended: a call fails with MexcRateLimitError after N + 1 consecutive
\* 429 responses, having issued N + 1 requests, and not before: after the N-th
\* 429 it waits and issues one more request.
C6_RateLimitExhaustion ==
    /\ (Len(log) = max_retries + 1 /\ AllAttempts("r429"))
         => /\ cpc = "done" /\ outcome.kind = "MexcRateLimitError"
            /\ nreq = max_retries + 1
    /\ (cpc = "done" /\ AllAttempts("r429")) => Len(log) = max_retries + 1
    /\ (cpc # "idle" /\ Len(log) <= max_retries /\ AllAttempts("r429"))
         => cpc \in {"request", "sleep"}

\* three 429 responses exhausted a client configured with max_retries = 2
C6_Witness ==
    /\ max_retries = 2
    /\ log = <<"r429", "r429", "r429">>
    /\ outcome.kind = "MexcRateLimitError"
    /\ nreq = 3

\* C7 (Rate-limit recovery): with max_retries >= 1, a 429 response makes the
\* call wait once for the rate limit and retry; when the retried request
\* succeeds the call returns that response's candles, after two requests and
\* one wait, and no error.
C7_RateLimitRecovery ==
    /\ (max_retries >= 1 /\ log = <<"r429">>)
         => /\ cpc \in {"sleep", "request"}
            /\ Len(sleeps) = 1 /\ sleeps[1].kind = "ratelimit"
            /\ outcome.kind = "pending"
    /\ log = <<"r429", "ok">>
         => /\ cpc = "done" /\ outcome.kind = "return"
            /\ Len(outcome.klines) = Len(lastResp.body.rows)
            /\ nreq = 2 /\ retry_count = 1
            /\ Len(sleeps) = 1 /\ sleeps[1].kind = "ratelimit"

\* one 429, then a success that returned candles
C7_Witness ==
    /\ log = <<"r429", "ok">>
    /\ outcome.kind = "return" /\ outcome.klines # <<>>
    /\ lastResp.status = 200

\* C8 (Non-retryable API errors fail fast): a response with status >= 400 other
\* than 429 whose code is outside the retryable set ends the call at once with
\* MexcAPIError holding that code and message: no sleep and no further request,
\* whatever attempts remain.
C8_NonRetryableFailFast ==
    [][(/\ Responded
        /\ IsApiErrorResponse(lastResp')
        /\ CarriedCode(lastResp') \notin {500, 502, 503, 504, -1001, -1021})
         => /\ cpc' = "done"
            /\ outcome'.kind = "MexcAPIError"
            /\ outcome'.code = CarriedCode(lastResp')
            /\ outcome'.message = CarriedMessage(lastResp')
            /\ sleeps' = sleeps
            /\ nreq' = nreq /\ retry_count' = retry_count]_vars

\* the first response of a call with two retries left carried code -1121, and
\* the call ended there
C8_Witness ==
    /\ max_retries = 2 /\ nreq = 1 /\ sleeps = <<>>
    /\ cpc = "done"
    /\ outcome.kind = "MexcAPIError" /\ outcome.code = -1121 /\ outcome.message = "msg"

\* C9 (Retry classification): an API error is retried if and only if attempts
\* remain and its code is one of 500, 502, 503, 504, -1001, -1021; nothing else
\* of the client's state or of the call's history enters the decision.
C9_RetryClassification ==
    [][(Responded /\ IsApiErrorResponse(lastResp'))
         => /\ (cpc' = "sleep")
                  <=> (/\ retry_count < max_retries
                       /\ CarriedCode(lastResp') \in {500, 502, 503, 504, -1001, -1021})
            /\ cpc' \in {"sleep", "done"}
            /\ cpc' = "done" => outcome'.kind = "MexcAPIError"]_vars

\* an error body with code -1021 under HTTP status 400 is being retried after
\* an earlier retry of the same call
C9_Witness ==
    /\ cpc = "sleep"
    /\ Len(log) = 2 /\ log[2] = "api"
    /\ lastResp.status = 400
    /\ lastResp.body.hasCode /\ lastResp.body.code = -1021

\* C10 (Typed outcome): a get_klines call that has ended either returned a fully
\* decoded candle sequence or raised one of the client's own errors
\* (MexcClientError, MexcAPIError, MexcRateLimitError), for every response the
\* server may send.
C10_TypedOutcome ==
    cpc = "done" =>
        \/ outcome.kind = "return"
        \/ outcome.kind \in {"MexcClientError", "MexcAPIError", "MexcRateLimitError"}
               /\ outcome.klines = <<>>

\* resp is a successful response whose body is not a top-level array: a JSON
\* object, or a body that is not JSON (sent with or without a JSON content
\* type); its used-weight header is absent or an integer
IsFormatErrorResponse(resp) ==
    /\ resp.exc = "none"
    /\ resp.status < 400
    /\ resp.body.kind \in {"object", "text"}
    /\ ~(resp.weight.present /\ ~resp.weight.int)

\* C11 (Format errors are never retried): a successful response whose body is
\* not a top-level array ends the call at once with the client's format error
\* (MexcClientError, "Unexpected response format"): no sleep and no further
\* request, whatever attempts remain.
C11_FormatErrorNotRetried ==
    [][(Responded /\ IsFormatErrorResponse(lastResp'))
         => /\ cpc' = "done"
            /\ outcome'.kind = "MexcClientError"
            /\ outcome'.message = "Unexpected response format"
            /\ sleeps' = sleeps
            /\ nreq' = nreq /\ retry_count' = retry_count]_vars

(***************************************************************************)
(* Properties of start() and stop().                                       *)
(***************************************************************************)
\* polling task t exists and has not finished
Alive(t) == pc[t] \notin {"unborn", "done"}

\* C12 (Cancellation), checked under SpecOneCaller: a stop() that suspended
\* eventually returns, wherever in its cycle the loop was; at the step in which
\* it returns the running flag is false and no loop is alive; and while the
\* poller is stopped with no stop() pending, no step starts a fetch or a
\* callback invocation.
C12_Cancellation ==
    /\ \A t \in Tasks : (t \in stopWait) ~> (t \notin stopWait)
    /\ [][\A t \in Tasks :
            (t \in stopWait /\ t \notin stopWait')
               => /\ ~running'
                  /\ task' = NoTask
                  /\ \A u \in Tasks : ~Alive(u)']_vars
    /\ [][(~running /\ stopWait = {})
            => /\ nFetch' = nFetch /\ cbCount' = cbCount
               /\ \A t \in Tasks : pc'[t] \notin {"fetch", "callback"}]_vars

\* a loop that completed a fetch and invoked the asynchronous callback was
\* stopped: it has terminated and stop() has returned
C12_Witness ==
    /\ ~running /\ stopWait = {} /\ task = NoTask
    /\ pc[1] = "done"
    /\ nFetch = 1 /\ cbCount = 1 /\ callback = "async" /\ cb0 = "async" /\ ~cbRaised

\* t is a live loop: it exists, has not finished, and is not about to be
\* ended by a cancellation already requested
Live(t) == Alive(t) /\ ~cancelled[t]

\* C13 (Single background task): under every interleaving of start() and
\* stop(), at most one polling loop is live, and whenever the running flag is
\* true the poller holds the handle of the one live loop.
C13_SingleBackgroundTask ==
    /\ Cardinality({t \in Tasks : Live(t)}) <= 1
    /\ running => (task # NoTask /\ Live(task))

\* C14 (Non-overlapping callbacks): in no reachable state are two invocations
\* of the poller's callback in progress at once.  A plain callback runs inside
\* one step; an asynchronous one is in progress while its loop awaits it.
C14_NonOverlappingCallbacks ==
    Cardinality({t \in Tasks : pc[t] = "callback"}) <= 1

\* C15 (stop() ordering): the poller turns Idle only after its loop has
\* terminated: in no reachable state is the running flag false while the loop
\* the poller holds the handle of is still alive (cancellation requested or
\* not).
C15_StopOrdering ==
    ~running => (task = NoTask \/ ~Alive(task))

\* the loops the step spawns
Spawned == {t \in Tasks : pc[t] = "unborn" /\ pc'[t] # "unborn"}

\* C16 (start() is idempotent while Running): no step taken while the running
\* flag is true spawns a loop, and while the flag stays true the task handle
\* changes only when a suspended stop() resumes and the mark only when a fetch
\* completes, so a start() on a Running poller changes none of them; a loop is
\* spawned only on an Idle poller, exactly one at a time, in the step that sets
\* the running flag and stores the new loop's handle; and the flag turns true
\* in no other way.
C16_StartIdempotent ==
    [][/\ running => Spawned = {}
       /\ (running /\ running' /\ task' # task) => stopWait' # stopWait
       /\ (running /\ last_close_time' # last_close_time) => nFetch' = nFetch + 1
       /\ Spawned # {}
            => /\ ~running /\ running'
               /\ Cardinality(Spawned) = 1
               /\ task' \in Spawned /\ pc'[task'] = "created"
               /\ last_close_time' = last_close_time
       /\ (~running /\ running') => Cardinality(Spawned) = 1]_vars

\* start() on a poller that was stopped has spawned the second loop, which has
\* not run yet; the mark of the first run is kept
C16_Witness ==
    /\ running /\ task = 2
    /\ pc[1] = "done" /\ pc[2] = "created"
    /\ last_close_time = 1

StoppedInSleep(t) ==
    cancelled[t] /\ t \in stopWait /\ pc[t] \in {"sleep", "errsleep"}

\* C18 (Interruptible sleep), checked under SpecOneCaller, which assumes
\* nothing about timers: when stop() is called while the loop is in the sleep
\* that follows a cycle or a failed fetch, stop() returns; the loop leaves the
\* sleep only by terminating, and completes no further fetch.
C18_InterruptibleSleep ==
    /\ \A t \in Tasks : StoppedInSleep(t) ~> (t \notin stopWait)
    /\ [][\A t \in Tasks :
            (StoppedInSleep(t) /\ pc'[t] # pc[t])
               => pc'[t] = "done" /\ nFetch' = nFetch]_vars

\* stop() was called while the loop was in the sleep that follows a failed
\* fetch
C18_Witness ==
    /\ StoppedInSleep(1) /\ pc[1] = "errsleep"
    /\ ~running
    /\ nFetch = 1 /\ ~lastFetch.ok

\* C19 (Fetch failures are contained): when a fetch raises, the loop does not
\* terminate: the step invokes no callback, leaves the mark and the running
\* flag unchanged and puts the loop into the handler's sleep; the loop leaves
\* that sleep only for the next cycle's fetch (no second sleep, no retry
\* before it), or to end because stop() cleared the flag or cancelled it.
C19_FetchFailureContained ==
    [][/\ (nFetch' = nFetch + 1 /\ ~lastFetch'.ok)
            => /\ last_close_time' = last_close_time
               /\ cbCount' = cbCount /\ lastDelivered' = <<>>
               /\ running' = running
               /\ \E t \in Tasks :
                     /\ pc[t] = "fetch" /\ pc'[t] = "errsleep"
                     /\ \A u \in Tasks \ {t} : pc'[u] = pc[u]
       /\ \A t \in Tasks :
            (pc[t] = "errsleep" /\ pc'[t] # "errsleep")
               => \/ ~cancelled[t] /\ running /\ pc'[t] = "fetch"
                  \/ ~cancelled[t] /\ ~running /\ pc'[t] = "done"
                  \/ cancelled[t] /\ pc'[t] = "done"]_vars

\* the first fetch of the loop failed, the loop slept, and its next fetch is
\* in flight; no mark was set and no callback invoked
C19_Witness ==
    /\ running /\ task = 1 /\ ~cancelled[1]
    /\ pc[1] = "fetch"
    /\ nFetch = 1 /\ ~lastFetch.ok
    /\ last_close_time = None /\ cbCount = 0

\* the step is the end of a callback invocation of loop t that raised: a plain
\* callback inside the step that completed the fetch, or an awaited one
CallbackRaisedIn(t) ==
    /\ cbRaised' /\ pc'[t] # pc[t]
    /\ \/ pc[t] = "fetch" /\ cbCount' = cbCount + 1 /\ pc'[t] # "callback"
       \/ pc[t] = "callback" /\ ~cancelled[t]

\* C20 (Callback failures are contained): when the callback, plain or
\* asynchronous, raises, its loop goes on to the inter-cycle sleep and the
\* running flag and the task handle are unchanged; the loop leaves that sleep
\* only for the next fetch, or to end when stop() cleared the flag or cancelled
\* it.
C20_CallbackFailureContained ==
    [][\A t \in Tasks :
          /\ CallbackRaisedIn(t)
                => /\ pc'[t] = "sleep"
                   /\ running' = running /\ task' = task
                   /\ cancelled' = cancelled
          /\ (pc[t] = "sleep" /\ pc'[t] # "sleep")
                => \/ ~cancelled[t] /\ running /\ pc'[t] = "fetch"
                   \/ ~cancelled[t] /\ ~running /\ pc'[t] = "done"
                   \/ cancelled[t] /\ pc'[t] = "done"]_vars

\* the callback raised on the first advance; the same loop slept, fetched
\* again and is now awaiting the callback for the second advance
C20_Witness ==
    /\ cbRaised
    /\ running /\ task = 1 /\ pc[1] = "callback" /\ pc[2] = "unborn"
    /\ cbCount = 2 /\ nFetch = 2
    /\ last_close_time = 2

\* C21 (Empty fetch is a no-op for delivery): a successful fetch that returns
\* an empty sequence invokes no callback and leaves the mark as it was, unset
\* included; the loop that fetched goes to the inter-cycle sleep, and no other
\* loop moves.
C21_EmptyFetchNoOp ==
    [][(nFetch' = nFetch + 1 /\ lastFetch'.ok /\ lastFetch'.klines = <<>>)
         => /\ last_close_time' = last_close_time
            /\ advCount' = advCount
            /\ cbCount' = cbCount /\ lastDelivered' = <<>>
            /\ cbRaised' = cbRaised
            /\ \E t \in Tasks :
                  /\ pc[t] = "fetch" /\ pc'[t] = "sleep"
                  /\ \A u \in Tasks \ {t} : pc'[u] = pc[u]]_vars

\* a poller with a callback fetched an empty sequence after a delivered
\* advance: the mark and the callback count are those of the first fetch
C21_Witness ==
    /\ callback # "none"
    /\ nFetch = 2 /\ lastFetch = FetchOk(<<>>)
    /\ pc[1] = "sleep"
    /\ last_close_time = 2 /\ cbCount = 1

(***************************************************************************)
(* Properties of a client shared by several calls (checked under           *)
(* SpecShared).                                                            *)
(***************************************************************************)
\* resp is a failure the client retries while attempts remain: a transport
\* failure, a 429, or an API error with a retryable code
IsRetryableResponse(resp) ==
    \/ resp.exc \in NetworkErrors
    \/ resp.exc = "none" /\ resp.status = 429
    \/ IsApiErrorResponse(resp)
          /\ CarriedCode(resp) \in {500, 502, 503, 504, -1001, -1021}

\* the step is the arrival of a response to call c
RespondedTo(c) == calls[c].cpc = "request" /\ calls'[c].cpc # "request"

\* C22 (Shared client independence): a step of one call changes no other
\* call; a response to call c is retried exactly when it is a retryable
\* failure and c itself has made at most max_retries requests, whatever the
\* other calls have done; and a call that ends does so with the outcome its
\* own last response determines.
C22_SharedClientIndependence ==
    [][\A c \in CallIds :
          /\ calls'[c] # calls[c]
                => \A d \in CallIds \ {c} : calls'[d] = calls[d]
          /\ RespondedTo(c)
                => /\ (calls'[c].cpc = "sleep")
                        <=> (/\ IsRetryableResponse(calls'[c].lastResp)
                             /\ calls[c].nreq <= max_retries)
                   /\ calls'[c].nreq = calls[c].nreq
                   /\ calls'[c].cpc = "done"
                        => calls'[c].outcome
                              = GetKlinesResult(TryRequest(calls'[c].lastResp))]_vars

\* call 1 used up all its attempts on transport failures and failed; call 2,
\* running beside it, still had its full budget: it returned on its last
\* attempt
C22_Witness ==
    /\ calls[1].cpc = "done" /\ calls[1].outcome.kind = "MexcClientError"
    /\ calls[1].nreq = max_retries + 1
    /\ calls[2].cpc = "done" /\ calls[2].outcome.kind = "return"
    /\ calls[2].nreq = max_retries + 1

(***************************************************************************)
(* Properties of the connection handle (checked under SpecHandle).         *)
(***************************************************************************)
\* the handles that were held at some time before operation i
HeldBefore(i) == {hlog[j].now : j \in 1..(i - 1)} \ {NoClient}

\* C23 (Connection handle lifecycle): over any series of enter, request and
\* close operations, an enter or a request on a client that holds a handle
\* keeps that handle, and on a client that holds none it creates one that was
\* never held before; a close leaves no handle, and on a client that holds
\* none it changes nothing; the client holds what the last operation left.
C23_HandleLifecycle ==
    /\ client = IF hlog = <<>> THEN NoClient ELSE hlog[Len(hlog)].now
    /\ \A i \in 1..Len(hlog) :
          /\ hlog[i].held = IF i = 1 THEN NoClient ELSE hlog[i - 1].now
          /\ hlog[i].op \in {"enter", "request"}
                => /\ hlog[i].now # NoClient
                   /\ hlog[i].held # NoClient => hlog[i].now = hlog[i].held
                   /\ hlog[i].held = NoClient => hlog[i].now \notin HeldBefore(i)
          /\ hlog[i].op = "close" => hlog[i].now = NoClient

\* enter, close, close again, request: the second close changed nothing and
\* the request opened a second handle
C23_Witness ==
    /\ Len(hlog) = 4
    /\ hlog[1].op = "enter" /\ hlog[2].op = "close"
    /\ hlog[3].op = "close" /\ hlog[3].held = NoClient
    /\ hlog[4].op = "request" /\ hlog[4].now = 2
    /\ client = 2

(***************************************************************************)
(* Properties of get_latest_price (checked under SpecLatest).              *)
(***************************************************************************)
\* C24 (Latest price): get_latest_price asks get_klines for limit = 1 and no
\* time range; when get_klines returned an empty list it raises
\* MexcClientError "No klines returned", when it returned candles the price is
\* the close of the first, and whatever get_klines raised is raised unchanged.
C24_LatestPrice ==
    ret # NotCalled =>
        /\ ret.params.limit = 1
        /\ ~ret.params.hasStartTime /\ ~ret.params.hasEndTime
        /\ args.fetch.kind = "return" /\ args.fetch.klines = <<>>
              => /\ ret.kind = "MexcClientError"
                 /\ ret.message = "No klines returned"
        /\ args.fetch.kind = "return" /\ args.fetch.klines # <<>>
              => /\ ret.kind = "return"
                 /\ ret.price = args.fetch.klines[1].close
        /\ args.fetch.kind # "return"
              => /\ ret.kind = args.fetch.kind
                 /\ ret.code = args.fetch.code
                 /\ ret.message = args.fetch.message

\* the call was made on an empty list and raised the no-data error
C24_Witness ==
    /\ args # NoArgs /\ ret # NotCalled
    /\ args.fetch = Returned(<<>>)
    /\ ret.kind = "MexcClientError"

CarriesWeight(resp) == resp.exc = "none" /\ resp.weight.present /\ resp.weight.int

\* C27 (Rate-limit budget): the remaining budget starts at 1200 and is never
\* negative nor above 1200; a response that carries the used-weight header sets
\* it to max(0, 1200 - used_weight), and nothing else changes it, so it is
\* always the value set by the most recent such response.
C27_RateLimitBudget ==
    /\ rate_limit_remaining = RateLimitCapacity
    /\ [](rate_limit_remaining >= 0 /\ rate_limit_remaining <= RateLimitCapacity)
    /\ [][IF Responded /\ CarriesWeight(lastResp')
          THEN rate_limit_remaining' =
                  Max(0, RateLimitCapacity - lastResp'.weight.value)
          ELSE rate_limit_remaining' = rate_limit_remaining]_vars

\* a response reported a used weight of 1300, the budget went to 0, and the
\* response after it, which carried no header, left it there
C27_Witness ==
    /\ Len(log) = 2
    /\ lastResp.exc = "none" /\ lastResp.weight = NoHeader
    /\ rate_limit_remaining = 0

(***************************************************************************)
(* Properties of the query parameters of get_klines (checked under         *)
(* SpecParams).                                                            *)
(***************************************************************************)
\* C28 (Limit clamping): whatever limit is asked for, the call goes out, the
\* limit sent is the smaller of the limit asked for and 1000, and so is never
\* above 1000.
C28_LimitClamping ==
    ret # NotCalled =>
        /\ ret.kind = "sent"
        /\ ret.params.limit <= MaxLimit
        /\ args.limit <= MaxLimit => ret.params.limit = args.limit
        /\ args.limit > MaxLimit => ret.params.limit = MaxLimit

\* a limit of 5000 was asked for and 1000 was sent
C28_Witness ==
    /\ args # NoArgs /\ ret # NotCalled
    /\ args.limit = 5000
    /\ ret.kind = "sent" /\ ret.params.limit = 1000

\* C29 (Time-range parameters): a start_time (end_time) that is supplied, any
\* integer from 0 up, is sent as startTime (endTime) with that value; one that
\* is not supplied is not sent.
C29_TimeRangeParams ==
    ret # NotCalled =>
        /\ IF args.start_time # None
           THEN ret.params.hasStartTime /\ ret.params.startTime = args.start_time
           ELSE ~ret.params.hasStartTime
        /\ IF args.end_time # None
           THEN ret.params.hasEndTime /\ ret.params.endTime = args.end_time
           ELSE ~ret.params.hasEndTime

(***************************************************************************)
(* Properties of the decoding of a response body (checked under            *)
(* SpecDecode).  Index i of the source is position i + 1 here.             *)
(***************************************************************************)
\* the fields of candle k at indices 0..7 are the elements of array data
Fields0To7(k, data) ==
    /\ k.open_time = data[1] /\ k.open = data[2] /\ k.high = data[3]
    /\ k.low = data[4] /\ k.close = data[5] /\ k.volume = data[6]
    /\ k.close_time = data[7] /\ k.quote_volume = data[8]

\* a field is the element at index i where the array has one, else 0
ElementOrZero(field, data, i) ==
    IF Len(data) > i THEN field = data[i + 1] ELSE field = 0

C31_CandleInvariant ==
    ret # NotCalled /\ ret.kind = "return" =>
        \A n \in 1..Len(ret.klines) :
            ret.klines[n].open_time < ret.klines[n].close_time

(***************************************************************************)
(* Properties of the high-water mark (checked under SpecPoller).           *)
(***************************************************************************)
\* this step is the loop processing a fetch that returned candles
ProcessedBatch == nFetch' = nFetch + 1 /\ lastFetch'.ok /\ lastFetch'.klines # <<>>

\* C32 (High-water mark monotonicity): the mark never decreases and, once
\* set, is never unset; a step that processes a fetched non-empty batch leaves
\* it at the larger of its value and the batch's last close_time, and no other
\* step (failed or empty fetch, callback, start, stop, cancellation) changes
\* it, so it is always the largest last close_time processed so far.
C32_MarkMonotone ==
    [][/\ last_close_time # None => last_close_time' # None
       /\ last_close_time' >= last_close_time
       /\ IF ProcessedBatch
          THEN LET latest == Last(lastFetch'.klines).close_time
               IN  last_close_time' =
                      IF last_close_time = None \/ latest > last_close_time
                      THEN latest ELSE last_close_time
          ELSE last_close_time' = last_close_time]_vars

\* a batch whose last candle is older than the mark was processed and the mark
\* stayed
C32_Witness ==
    /\ nFetch = 2
    /\ lastFetch.ok /\ lastFetch.klines # <<>>
    /\ Last(lastFetch.klines).close_time < last_close_time

\* C33 (Mark-before-callback): a step that hands a batch to the callback has
\* moved the mark to that batch's last close_time, which was newer than the
\* mark; while the callback has not finished, and after it returned, raised or
\* was cancelled, the mark is still at or past that close_time, so a later
\* fetch with the same last close_time is not delivered.
C33_MarkBeforeCallback ==
    /\ [](lastDelivered # <<>> =>
             last_close_time >= Last(lastDelivered).close_time)
    /\ [][/\ cbCount' = cbCount + 1
             => /\ last_close_time = None
                      \/ Last(lastDelivered').close_time > last_close_time
                /\ last_close_time' = Last(lastDelivered').close_time
          /\ (\E t \in Tasks : pc[t] = "callback" /\ pc'[t] # "callback")
             => last_close_time' = last_close_time
          /\ cbRaised' /\ ~cbRaised => last_close_time' >= last_close_time
          /\ last_close_time # None => last_close_time' # None]_vars

\* after a callback raised, the loop fetched the same batch again and
\* delivered nothing
C33_Witness ==
    /\ cbRaised
    /\ nFetch = 2 /\ cbCount = 1
    /\ lastFetch.ok /\ lastFetch.klines # <<>>
    /\ Last(lastFetch.klines).close_time = last_close_time
    /\ lastDelivered = <<>>

\* C34 (Mark advances without a consumer): with no callback set, a processed
\* batch that is newer than the mark still moves the mark and calls nothing;
\* a change of the callback leaves the mark, the running flag, the task and
\* every loop where they are; a callback is only ever called with a batch
\* strictly newer than the mark, so one installed later gets nothing for a
\* close_time the poller has already seen.
C34_AdvanceWithoutConsumer ==
    [][/\ ProcessedBatch /\ callback = "none"
             /\ (last_close_time = None
                    \/ Last(lastFetch'.klines).close_time > last_close_time)
          => /\ last_close_time' = Last(lastFetch'.klines).close_time
             /\ cbCount' = cbCount
       /\ callback' # callback
          => UNCHANGED <<last_close_time, running, task, pc, cancelled, cbCount>>
       /\ cbCount' = cbCount + 1
          => /\ ProcessedBatch /\ callback # "none"
             /\ last_close_time = None
                   \/ Last(lastFetch'.klines).close_time > last_close_time]_vars

\* the mark advanced with no callback set; a callback was installed; the next
\* fetch ended at the same close_time and the callback was not called
C34_Witness ==
    /\ cb0 = "none" /\ callback # "none"
    /\ nFetch = 2 /\ advCount = 1 /\ cbCount = 0
    /\ lastFetch.ok /\ lastFetch.klines # <<>>
    /\ Last(lastFetch.klines).close_time = last_close_time

\* C35 (Restart keeps the mark): a step of start() or stop() leaves the mark
\* unchanged; start() on a stopped poller sets the flag and creates a new
\* loop; and the loop of a restart calls the callback only for a batch whose
\* last close_time is strictly greater than the mark it found.
C35_RestartKeepsMark ==
    [][/\ running' # running \/ task' # task \/ stopWait' # stopWait
          => last_close_time' = last_close_time
       /\ ~running /\ running'
          => /\ task' \in Tasks
             /\ pc[task'] = "unborn" /\ pc'[task'] = "created"
       /\ (\E t \in Tasks : t > 1 /\ pc[t] = "fetch" /\ pc'[t] # "fetch")
             /\ cbCount' = cbCount + 1 /\ last_close_time # None
          => Last(lastFetch'.klines).close_time > last_close_time]_vars

\* the first loop delivered a batch and was stopped; the loop of the restart
\* fetched a batch ending at the same close_time and delivered nothing
C35_Witness ==
    /\ running /\ task = 2 /\ stopWait = {}
    /\ pc[1] = "done" /\ pc[2] = "sleep"
    /\ nFetch = 2 /\ cbCount = 1
    /\ lastFetch.ok /\ lastFetch.klines # <<>>
    /\ Last(lastFetch.klines).close_time = last_close_time
    /\ lastDelivered = <<>>

(***************************************************************************)
(* Properties of the error of an exhausted call (checked under SpecClient).*)
(***************************************************************************)
\* C36 (Exhaustion error kind): a call that ended on its last attempt,
\* max_retries + 1, with a failure raises the error of that attempt alone:
\* MexcClientError "Network error" for a transport failure,
\* MexcRateLimitError for a 429, MexcAPIError with the response's code for an
\* API error; the kinds of the earlier failures play no part.
C36_ExhaustionErrorKind ==
    (cpc = "done" /\ Len(log) = max_retries + 1) =>
        LET last == log[Len(log)]
            r == TryRequest(lastResp)
        IN  /\ outcome = GetKlinesResult(r)
            /\ last = "transport"
                  => /\ outcome.kind = "MexcClientError"
                     /\ outcome.message = "Network error"
            /\ last = "r429" => outcome.kind = "MexcRateLimitError"
            /\ last = "api"
                  => /\ outcome.kind = "MexcAPIError"
                     /\ outcome.code = r.code

\* a retryable API error, then a 429, then a transport failure on the last
\* attempt: the call raised the transport-exhausted error
C36_Witness ==
    /\ max_retries = 2
    /\ log = <<"api", "r429", "transport">>
    /\ cpc = "done"
    /\ outcome.kind = "MexcClientError"

(***************************************************************************)
(* Properties of close() racing with requests (checked under SpecRace).    *)
(***************************************************************************)
\* C37 (Close/open race): under any interleaving of close() calls and
\* requests, no request is issued on a handle on which aclose() was called,
\* and no handle is dropped from self._client without aclose() having been
\* called on it.
C37_CloseOpenRace ==
    \A i \in 1..Len(hlog) :
        /\ hlog[i].op = "request" => hlog[i].now \notin ClosedIn(hlog, i - 1)
        /\ hlog[i].op = "clear" /\ hlog[i].held # NoClient
              => hlog[i].held \in ClosedIn(hlog, i - 1)

(***************************************************************************)
(* Properties of the rate-limit fields (checked under SpecClient).         *)
(***************************************************************************)
\* C38 (Rate-limit bookkeeping): a response that carries the used-weight
\* header sets the remaining budget from it whatever its status, also when
\* the status then makes the attempt fail or retry; a request that fails in
\* transport leaves the budget unchanged.
C38_BookkeepingEveryResponse ==
    [][Responded =>
          /\ CarriesWeight(lastResp')
             => rate_limit_remaining' =
                   Max(0, RateLimitCapacity - lastResp'.weight.value)
          /\ lastResp'.exc # "none"
             => rate_limit_remaining' = rate_limit_remaining]_vars

\* a 429 response that reported a used weight of 1300 was retried and left
\* the budget at 0
C38_Witness ==
    /\ log = <<"r429">>
    /\ lastResp.status = 429 /\ lastResp.weight = Weight(1300)
    /\ cpc = "sleep"
    /\ rate_limit_remaining = 0

\* C39 (Reset timestamp never written): the recorded reset timestamp is 0 in
\* every reachable state, and every wait before the retry of a 429 is the
\* fallback of 60 seconds.
C39_ResetNeverWritten ==
    /\ rate_limit_reset = 0
    /\ \A i \in 1..Len(sleeps) :
          sleeps[i].kind = "ratelimit" => sleeps[i].delay = RateLimitFallback

\* two 429 responses with different used weights were each followed by a wait
\* of 60 seconds
C39_Witness ==
    /\ log = <<"r429", "r429">>
    /\ Len(sleeps) = 2
    /\ sleeps[1].delay = RateLimitFallback /\ sleeps[2].delay = RateLimitFallback
    /\ rate_limit_remaining # RateLimitCapacity

=============================================================================
